---- MODULE Spec2Model ----
(***************************************************************************)
(* obsidian2hugo.py: conversion of an Obsidian vault into Hugo page        *)
(* bundles.  Text is modelled character by character: a text is a sequence *)
(* of elements, each either one character or one logical line of YAML (a   *)
(* key with its value, as yaml.dump writes it and yaml.safe_load reads it).*)
(***************************************************************************)
EXTENDS Integers, Sequences, FiniteSets, TLC

\* ------------------------------------------------------------- bounds
MaxSegs == 3
MaxEmbeds == 2
MaxNotes == 2
MaxRuns == 2

\* ------------------------------------------------------ Python values
\* A YAML / Python value: None, str, list of str, int, date.
None == [t |-> "none", s |-> <<>>, l |-> <<>>, n |-> 0]
Str(s) == [t |-> "str", s |-> s, l |-> <<>>, n |-> 0]
List(l) == [t |-> "list", s |-> <<>>, l |-> l, n |-> 0]
IntV(n) == [t |-> "int", s |-> <<>>, l |-> <<>>, n |-> n]
Date(n) == [t |-> "date", s |-> <<>>, l |-> <<>>, n |-> n]
\* datetime.now(tz).isoformat() taken at instant n: a str.
NowStr(n) == [t |-> "str", s |-> <<"T">>, l |-> <<>>, n |-> n]

\* bool(v)
Truthy(v) ==
    CASE v.t = "none" -> FALSE
      [] v.t = "str" -> v.s # <<>>
      [] v.t = "list" -> v.l # <<>>
      [] v.t = "int" -> v.n # 0
      [] OTHER -> TRUE

\* ---------------------------------------------------------------- text
Ch(c) == [c |-> c, y |-> <<>>]
YamlLine(k, v) == [c |-> "", y |-> <<[k |-> k, v |-> v]>>]
\* a line no YAML parser accepts, and a document that is a sequence
BadLine == [c |-> "", y |-> <<[k |-> "?", v |-> None]>>]
SeqLine == [c |-> "", y |-> <<[k |-> "-", v |-> None]>>]
Text(s) == [i \in 1..Len(s) |-> Ch(s[i])]
\* the plain characters of a text
Plain(s) == [i \in 1..Len(s) |-> s[i].c]
IsLine(e) == e.y # <<>>
IsSpace(e) == e.c \in {" ", "\n", "\t"}
\* '.' without re.DOTALL: any character but a line break
IsDot(e) == e.c # "\n" /\ ~IsLine(e)

Min(S) == CHOOSE x \in S : \A y \in S : x <= y
Max(S) == CHOOSE x \in S : \A y \in S : x >= y

\* the characters pat stand in s from position i on
StartsAt(s, i, pat) ==
    /\ i >= 1
    /\ i + Len(pat) - 1 <= Len(s)
    /\ \A j \in 1..Len(pat) : s[i + j - 1].c = pat[j]

\* the first position >= i where pat stands, 0 when there is none
FindFrom(s, i, pat) ==
    LET S == {j \in i..Len(s) : StartsAt(s, j, pat)}
    IN IF S = {} THEN 0 ELSE Min(S)

\* the first position >= i that holds no whitespace (Len(s)+1 when none)
SkipSpace(s, i) ==
    LET S == {j \in i..Len(s) : ~IsSpace(s[j])}
    IN IF S = {} THEN Len(s) + 1 ELSE Min(S)

\* str.lstrip()
LStrip(s) == SubSeq(s, SkipSpace(s, 1), Len(s))

\* str.strip() on a sequence of plain characters
Strip(s) ==
    LET S == {j \in 1..Len(s) : s[j] \notin {" ", "\n", "\t"}}
    IN IF S = {} THEN <<>> ELSE SubSeq(s, Min(S), Max(S))

\* str.split(',') on a sequence of plain characters
RECURSIVE Split(_)
Split(s) ==
    LET S == {j \in 1..Len(s) : s[j] = ","}
    IN IF S = {} THEN <<s>>
       ELSE <<SubSeq(s, 1, Min(S) - 1)>> \o Split(SubSeq(s, Min(S) + 1, Len(s)))

\* [f(x) for x in l]
StripAll(l) == [i \in 1..Len(l) |-> Strip(l[i])]

\* str.replace(old, new): every non-overlapping occurrence, left to right
RECURSIVE Replace(_, _, _)
Replace(s, old, new) ==
    IF Len(s) = 0 THEN <<>>
    ELSE IF Len(old) <= Len(s) /\ SubSeq(s, 1, Len(old)) = old
         THEN new \o Replace(SubSeq(s, Len(old) + 1, Len(s)), old, new)
         ELSE <<s[1]>> \o Replace(SubSeq(s, 2, Len(s)), old, new)

\* ------------------------------------------------------- the patterns
\* \[\[(.*?)\]\] tried with its "[[" at position i: the position of the
\* closing "]]" (the first one, when no line break comes before it), else 0
CloseOf(s, i) ==
    LET j == FindFrom(s, i + 2, <<"]", "]">>)
    IN IF StartsAt(s, i, <<"[", "[">>) /\ j # 0
          /\ \A m \in (i + 2)..(j - 1) : IsDot(s[m])
       THEN j ELSE 0

\* attachment_pattern = r'!\[\[(.*?)\]\]' matched at position i
AttachmentCloseAt(s, i) ==
    IF StartsAt(s, i, <<"!">>) THEN CloseOf(s, i + 1) ELSE 0

\* re.finditer(attachment_pattern, content): the matches from position i on
RECURSIVE attachment_matches(_, _)
attachment_matches(s, i) ==
    IF i > Len(s) THEN <<>>
    ELSE LET j == AttachmentCloseAt(s, i)
         IN IF j # 0
            THEN <<[original_link_text |-> SubSeq(s, i, j + 1),
                    original_filename |-> Plain(SubSeq(s, i + 3, j - 1))]>>
                 \o attachment_matches(s, j + 2)
            ELSE attachment_matches(s, i + 1)

\* the lookbehind of wikilink_pattern: the raw string '(?<!\\!)' is the
\* regex (?<!\\!), which rejects a backslash followed by '!', not a bare '!'
wikilink_lookbehind(s, i) ==
    ~(i >= 3 /\ s[i - 2].c = "\\" /\ s[i - 1].c = "!")

\* wikilink_pattern = r'(?<!\\!)\[\[(.*?)\]\]' matched at position i
WikilinkCloseAt(s, i) ==
    IF wikilink_lookbehind(s, i) THEN CloseOf(s, i) ELSE 0

\* re.sub(wikilink_pattern, r'\1', content), scanning from position i
RECURSIVE wikilink_sub(_, _)
wikilink_sub(s, i) ==
    IF i > Len(s) THEN <<>>
    ELSE LET j == WikilinkCloseAt(s, i)
         IN IF j # 0
            THEN SubSeq(s, i + 2, j - 1) \o wikilink_sub(s, j + 2)
            ELSE <<s[i]>> \o wikilink_sub(s, i + 1)

\* ------------------------------------------------------ front matter
\* '^' under re.MULTILINE: the start of the text or of a line
LineStart(s, q) == q = 1 \/ s[q - 1].c = "\n" \/ IsLine(s[q - 1])

\* FRONT_MATTER_PATTERN.match(full_content), the pattern being
\* ^---\s*$(.*?)^---\s* under DOTALL | MULTILINE.  The greedy \s* gives
\* back to the last line break of the run ('$' stands before it), the lazy
\* group ends at the first line that starts with "---", and the last \s*
\* takes every whitespace character that follows.
FRONT_MATTER_PATTERN(s) ==
    LET w == SkipSpace(s, 4)
        NL == {j \in 4..(w - 1) : s[j].c = "\n"}
        p == Max(NL)
        Q == {q \in (p + 1)..Len(s) :
                 LineStart(s, q) /\ StartsAt(s, q, <<"-", "-", "-">>)}
    IN IF ~StartsAt(s, 1, <<"-", "-", "-">>) \/ NL = {} THEN [ok |-> FALSE]
       ELSE IF Q = {} THEN [ok |-> FALSE]
       ELSE [ok |-> TRUE,
             group1 |-> SubSeq(s, p, Min(Q) - 1),
             end |-> SkipSpace(s, Min(Q) + 3)]

\* the ordered mapping (dict): a sequence of [k, v] with distinct keys
Has(d, k) == \E i \in 1..Len(d) : d[i].k = k
Get(d, k, default) ==
    IF Has(d, k) THEN d[CHOOSE i \in 1..Len(d) : d[i].k = k].v ELSE default
Set(d, k, v) ==
    IF Has(d, k)
    THEN [i \in 1..Len(d) |-> IF d[i].k = k THEN [k |-> k, v |-> v] ELSE d[i]]
    ELSE Append(d, [k |-> k, v |-> v])
Del(d, k) == SelectSeq(d, LAMBDA e : e.k # k)

RECURSIVE DictOf(_)
DictOf(items) ==
    IF items = <<>> THEN <<>>
    ELSE LET e == items[Len(items)]
         IN Set(DictOf(SubSeq(items, 1, Len(items) - 1)), e.k, e.v)

\* yaml.safe_load(yaml_content): "error" for a YAMLError, else the value:
\* a mapping, None for an empty document, or something that is no mapping
\* (a sequence, a plain scalar)
safe_load(g) ==
    LET elems == SelectSeq(g, LAMBDA e : ~IsSpace(e))
        n == Len(elems)
        lines == {i \in 1..n : IsLine(elems[i])}
        seqs == {i \in 1..n : elems[i] = SeqLine}
    IN IF (\E i \in 1..n : elems[i] = BadLine)
          \/ (lines # {} /\ lines # 1..n)
          \/ (seqs # {} /\ seqs # 1..n)
       THEN [kind |-> "error", items |-> <<>>]
       ELSE IF n = 0 THEN [kind |-> "none", items |-> <<>>]
       ELSE IF lines = {} \/ seqs # {} THEN [kind |-> "other", items |-> <<>>]
       ELSE [kind |-> "map",
             items |-> DictOf([i \in 1..n |-> elems[i].y[1]])]

\* yaml.dump(properties, ..., default_flow_style=False, sort_keys=False)
yaml_dump(d) == [i \in 1..Len(d) |-> YamlLine(d[i].k, d[i].v)]

\* parse_note_content(full_content): (properties, note_body); properties
\* is [mapping, items], mapping FALSE when the front matter is no mapping
parse_note_content(full_content) ==
    LET m == FRONT_MATTER_PATTERN(full_content)
        loaded == safe_load(m.group1)
    IN IF ~m.ok
       THEN [properties |-> [mapping |-> TRUE, items |-> <<>>],
             note_body |-> full_content]
       ELSE IF loaded.kind = "error"
       THEN [properties |-> [mapping |-> TRUE, items |-> <<>>],
             note_body |-> full_content]
       ELSE [properties |-> [mapping |-> loaded.kind # "other",
                             items |-> loaded.items],
             note_body |-> LStrip(SubSeq(full_content, m.end,
                                         Len(full_content)))]

\* -------------------------------------------------------- tag handling
\* filter_tag: the default of --filter-tag, 'blog'
filter_tag == <<"b", "l", "o", "g">>

\* tags_list of lines 128-132: the normalised tags, a list value unless
\* the 'tags' property is a truthy value that is neither str nor list
tags_list_of(d) ==
    LET tags_from_note == Get(d, "tags", List(<<>>))
    IN IF tags_from_note.t = "str"
       THEN List(StripAll(Split(tags_from_note.s)))
       ELSE IF Truthy(tags_from_note) THEN tags_from_note ELSE List(<<>>)

\* filter_tag in tags_list (line 134), tags_list a list
has_filter_tag(tl) == \E i \in 1..Len(tl.l) : tl.l[i] = filter_tag

\* list.remove(filter_tag) in its place: only the first occurrence goes
updated_tags_first_only(l) ==
    LET idx == {i \in 1..Len(l) : l[i] = filter_tag}
    IN IF idx = {} THEN l
       ELSE SubSeq(l, 1, Min(idx) - 1) \o SubSeq(l, Min(idx) + 1, Len(l))

\* updated_tags = [t for t in tags_list if t != filter_tag]
updated_tags_of(l) == SelectSeq(l, LAMBDA t : t # filter_tag)

\* lines 141-150: the 'tags' property of the note that was selected
update_tags(d, tl, remove) ==
    IF remove
    THEN IF updated_tags_of(tl.l) # <<>>
         THEN Set(d, "tags", List(updated_tags_of(tl.l)))
         ELSE IF Has(d, "tags") THEN Del(d, "tags") ELSE d
    ELSE Set(d, "tags", tl)

\* lines 154-156: title defaults to note_path.stem
update_title(d, stem) ==
    IF ~Truthy(Get(d, "title", None)) THEN Set(d, "title", Str(stem)) ELSE d

\* line 158: the date is taken from the clock
needs_date(d) == ~Truthy(Get(d, "date", None))

\* lines 158-162
update_date(d, now) ==
    IF needs_date(d) THEN Set(d, "date", NowStr(now)) ELSE d

\* ------------------------------------------------------------- paths
\* note_path.parent == p in its place: only the notes right in p
is_relative_to_parent(path, p) == SubSeq(path, 1, Len(path) - 1) = p

\* Path.is_relative_to: p is path or one of its ancestors, by components
is_relative_to(path, p) ==
    Len(p) <= Len(path) /\ SubSeq(path, 1, Len(p)) = p

\* note_path relative to notes_dir: the directories, then stem + ".md"
note_path(note) == note.dir \o <<note.stem \o <<".", "m", "d">>>>

\* line 116: the note lies under one of abs_exclude_paths
is_excluded(note, excl) ==
    \E i \in 1..Len(excl) : is_relative_to(note_path(note), excl[i])

\* ------------------------------------------------------- attachments
\* The attachments directory: name -> what lies there.  "file" is a
\* readable file with its bytes, "dir" a directory (open() raises
\* IsADirectoryError), "gone" a file removed between exists() and open()
\* (FileNotFoundError).  The empty name is the attachments directory itself.
AP == <<"a", ".", "p">>
BP == <<"b", ".", "p">>
BQ == <<"b", ".", "q">>
CP == <<"c", ".", "p">>
VN == <<"v">>
MN == <<"m">>
attachments_dir ==
    (AP :> [kind |-> "file", data |-> "1"])
    @@ (BP :> [kind |-> "file", data |-> "1"])
    @@ (BQ :> [kind |-> "file", data |-> "1"])
    @@ (CP :> [kind |-> "file", data |-> "2"])
    @@ (VN :> [kind |-> "gone", data |-> ""])
    @@ (<<>> :> [kind |-> "dir", data |-> ""])

\* source_attachment_path.exists()
exists(name) == name \in DOMAIN attachments_dir

\* hashlib.md5 over the bytes, as hex digits; the model's contents are few
\* and their digests differ
hexdigest(data) == <<"h", data>>

\* source_attachment_path.suffix
suffix(name) ==
    LET slashes == {i \in 1..Len(name) : name[i] = "/"}
        base == IF slashes = {} THEN name
                ELSE SubSeq(name, Max(slashes) + 1, Len(name))
        dots == {i \in 1..Len(base) : base[i] = "."}
    IN IF dots = {} THEN <<>>
       ELSE IF Max(dots) > 1 /\ Max(dots) < Len(base)
            THEN SubSeq(base, Max(dots), Len(base)) ELSE <<>>

\* f"{md5_hash}{original_filename}" in its place
new_filename_keeps_name(name) == hexdigest(attachments_dir[name].data) \o name

\* new_filename = f"{md5_hash}{extension}"
new_filename(name) == hexdigest(attachments_dir[name].data) \o suffix(name)

\* new_link_text = f"![]({new_filename})"
new_link_text(fname) == Text(<<"!", "[", "]", "(">> \o fname \o <<")">>)

\* a copy that lands outside the bundle directory
copy2_elsewhere(files, name) == files

\* shutil.copy2(source_attachment_path, target_attachment_path): the files
\* of the bundle afterwards
copy2(files, name) ==
    [f \in DOMAIN files \cup {new_filename(name)} |->
        IF f = new_filename(name) THEN attachments_dir[name].data ELSE files[f]]

\* lines 196-200: the replacements applied in order
RECURSIVE apply_replacements(_, _)
apply_replacements(s, reps) ==
    IF reps = <<>> THEN s
    ELSE apply_replacements(Replace(s, reps[1].old, reps[1].new), Tail(reps))

\* lines 205-208
strip_wikilinks(s) == wikilink_sub(s, 1)

\* lines 213-217: what is written to index.md
index_text(d, body) ==
    Text(<<"-", "-", "-", "\n">>) \o yaml_dump(d)
    \o Text(<<"-", "-", "-", "\n", "\n">>) \o body

\* ------------------------------------------------------------- inputs
\* A note of the vault: its directory under notes_dir, its stem, whether
\* open() succeeds, and its text: the front matter lines between the two
\* "---" lines (fm says whether there are such lines) and what follows.
P == <<"p">>
PX == <<"p", "x">>
N == <<"N">>
M == <<"M">>
Blog == <<"b", "l", "o", "g">>
X == <<"x">>
Dirs == {<<>>, <<P>>, <<PX>>, <<P, PX>>}

Note(dir, stem, readable, fm, front, body) ==
    [dir |-> dir, stem |-> stem, readable |-> readable, fm |-> fm,
     front |-> front, body |-> body]

\* f.read() of lines 122-123
full_content(note) ==
    IF note.fm
    THEN Text(<<"-", "-", "-", "\n">>) \o note.front
         \o Text(<<"-", "-", "-", "\n">>) \o Text(note.body)
    ELSE Text(note.body)

RECURSIVE SeqsUpTo(_, _)
SeqsUpTo(S, n) ==
    IF n = 0 THEN {<<>>}
    ELSE LET R == SeqsUpTo(S, n - 1)
         IN R \cup {Append(r, x) : r \in R, x \in S}

RECURSIVE Flatten(_)
Flatten(ss) == IF ss = <<>> THEN <<>> ELSE ss[1] \o Flatten(Tail(ss))

Embed(name) == <<"!", "[", "[">> \o name \o <<"]", "]">>

TagVals ==
    {None, IntV(5), List(<<>>), List(<<Blog>>), List(<<X>>),
     List(<<Blog, X, Blog>>), List(<<<<"B", "l", "o", "g">>>>),
     Str(Blog), Str(<<"B", "l", "o", "g">>), Str(Blog \o X),
     Str(<<" ">> \o Blog \o <<" ", ",", "x">>),
     Str(Blog \o <<",">> \o Blog), Str(<<"x", ",", " ">> \o Blog \o <<",">>)}
TagLines == {<<>>} \cup {<<YamlLine("tags", v)>> : v \in TagVals}
DateLines == {<<>>, <<YamlLine("date", Str(<<>>))>>, <<YamlLine("date", Date(1))>>}
TitleLines == {<<>>, <<YamlLine("title", Str(<<"t">>))>>}
Fronts ==
    {t \o d \o ti : t \in TagLines, d \in DateLines, ti \in TitleLines}
    \cup {<<BadLine>>, <<SeqLine>>, <<YamlLine("tags", List(<<Blog>>)), BadLine>>}
GoodFront ==
    <<YamlLine("tags", List(<<Blog, X>>)), YamlLine("date", Date(1)),
      YamlLine("title", Str(<<"t">>))>>

\* notes that differ in where they lie and in their front matter
SelectNotes ==
    {Note(d, N, TRUE, TRUE, f, <<"x">>) : d \in Dirs, f \in Fronts}
    \cup {Note(<<>>, N, TRUE, FALSE, <<>>, <<"x">>),
          Note(<<>>, N, FALSE, TRUE, GoodFront, <<"x">>)}

\* notes that differ in their body
WikiSegs ==
    {<<"[", "[">>, <<"]", "]">>, <<"!">>, <<"\\">>, <<" ">>, <<"\n">>,
     <<"w">>, Embed(MN), Embed(AP)}
EmbedSegs == {Embed(n) : n \in {AP, BP, BQ, CP, MN, VN, <<>>}}
Bodies ==
    {Flatten(ss) : ss \in SeqsUpTo(WikiSegs, MaxSegs)}
    \cup {Flatten(ss) : ss \in SeqsUpTo(EmbedSegs, MaxEmbeds)}
BodyNotes == {Note(<<>>, N, TRUE, TRUE, GoodFront, b) : b \in Bodies}

\* notes for the vaults of several notes
SmallNotes ==
    {Note(<<>>, N, TRUE, TRUE,
          <<YamlLine("tags", List(<<Blog>>)), YamlLine("date", Date(1))>>, <<"x">>),
     Note(<<P>>, N, TRUE, TRUE, <<YamlLine("tags", List(<<Blog>>))>>, <<"y">>),
     Note(<<PX>>, N, TRUE, TRUE,
          <<YamlLine("tags", Str(Blog \o <<",", " ", "x">>)),
            YamlLine("date", Date(2))>>, Embed(AP)),
     Note(<<>>, M, FALSE, TRUE, GoodFront, <<"x">>),
     Note(<<>>, M, TRUE, TRUE, <<SeqLine>>, <<"x">>),
     Note(<<P>>, M, TRUE, TRUE, GoodFront, Embed(BP)),
     Note(<<PX>>, M, TRUE, TRUE, GoodFront, Embed(<<>>)),
     Note(<<P, PX>>, M, TRUE, TRUE, <<YamlLine("tags", List(<<X>>))>>, <<"x">>)}

\* rglob('*.md') yields each file once
DistinctPaths(v) ==
    \A i, j \in 1..Len(v) : i # j => note_path(v[i]) # note_path(v[j])

\* the vaults whose one note differs in its body, and the others
BodyVaults == {<<n>> : n \in BodyNotes}
Vaults ==
    {<<n>> : n \in SelectNotes}
    \cup {v \in SeqsUpTo(SmallNotes, MaxNotes) : Len(v) >= 1 /\ DistinctPaths(v)}

\* -------------------------------------------------------------- state
VARIABLES
    vault,              \* the notes under notes_dir, in rglob's order
    remove_filter_tag,  \* --remove-filter-tag
    exclude_dirs,       \* --exclude-dirs, each a path under notes_dir
    posts,              \* hugo_posts_dir: bundle name -> [index, files]
    run,                \* how many times process_notes was started
    pc,                 \* idle, scan, attach, aborted, done
    cur,                \* how many notes the loop of line 115 has taken
    properties,         \* locals of the loop body
    content,
    matches,            \* what re.finditer has still to yield
    replacements,
    clock,              \* datetime.now
    visited,            \* the notes the loop body was entered for, this run
    saved,              \* what line 212-217 wrote, this run
    prev_posts          \* hugo_posts_dir as the run found it

vars ==
    <<vault, remove_filter_tag, exclude_dirs, posts, run, pc, cur, properties,
      content, matches, replacements, clock, visited, saved, prev_posts>>

config == <<vault, remove_filter_tag, exclude_dirs>>
locals == <<properties, content, matches, replacements>>

Init ==
    /\ \/ /\ vault \in Vaults
          /\ remove_filter_tag \in BOOLEAN
          /\ exclude_dirs \in {<<>>, <<<<P>>>>}
       \/ /\ vault \in BodyVaults
          /\ remove_filter_tag = FALSE
          /\ exclude_dirs = <<>>
    /\ posts = <<>>
    /\ run = 0
    /\ pc = "idle"
    /\ cur = 0
    /\ properties = <<>>
    /\ content = <<>>
    /\ matches = <<>>
    /\ replacements = <<>>
    /\ clock = 1
    /\ visited = {}
    /\ saved = <<>>
    /\ prev_posts = <<>>

\* target_bundle_dir.mkdir(exist_ok=True)
mkdir(dirs, name) ==
    [b \in DOMAIN dirs \cup {name} |->
        IF b \in DOMAIN dirs THEN dirs[b] ELSE [index |-> <<>>, files |-> <<>>]]

\* main() calls process_notes (lines 279-286)
StartRun ==
    /\ pc \in {"idle", "done", "aborted"}
    /\ run < MaxRuns
    /\ run' = run + 1
    /\ pc' = "scan"
    /\ cur' = 0
    /\ visited' = {}
    /\ saved' = <<>>
    /\ prev_posts' = posts
    /\ UNCHANGED <<config, posts, locals, clock>>

\* the loop of line 115 takes the next note
Taking == pc = "scan" /\ cur < Len(vault)
Taken ==
    /\ cur' = cur + 1
    /\ visited' = visited \cup {cur + 1}
    /\ UNCHANGED <<config, run, saved, prev_posts>>
Parsed == parse_note_content(full_content(vault[cur + 1]))

\* lines 116-118
SkipExcluded ==
    /\ Taking
    /\ is_excluded(vault[cur + 1], exclude_dirs)
    /\ Taken
    /\ UNCHANGED <<posts, pc, locals, clock>>

\* line 122: open() raises
FailRead ==
    /\ Taking
    /\ ~is_excluded(vault[cur + 1], exclude_dirs)
    /\ ~vault[cur + 1].readable
    /\ Taken
    /\ pc' = "aborted"
    /\ UNCHANGED <<posts, locals, clock>>

Readable ==
    /\ Taking
    /\ ~is_excluded(vault[cur + 1], exclude_dirs)
    /\ vault[cur + 1].readable

\* line 128: properties.get on a value that is no dict raises AttributeError
FailProperties ==
    /\ Readable
    /\ ~Parsed.properties.mapping
    /\ Taken
    /\ pc' = "aborted"
    /\ UNCHANGED <<posts, locals, clock>>

\* line 134: 'in' on a value that is no container raises TypeError
FailTags ==
    /\ Readable
    /\ Parsed.properties.mapping
    /\ tags_list_of(Parsed.properties.items).t # "list"
    /\ Taken
    /\ pc' = "aborted"
    /\ UNCHANGED <<posts, locals, clock>>

Listed ==
    /\ Readable
    /\ Parsed.properties.mapping
    /\ tags_list_of(Parsed.properties.items).t = "list"

\* lines 134-136
SkipTag ==
    /\ Listed
    /\ ~has_filter_tag(tags_list_of(Parsed.properties.items))
    /\ Taken
    /\ UNCHANGED <<posts, pc, locals, clock>>

\* lines 139-171: the note is selected, its properties are completed and
\* its bundle directory is made
SelectNote ==
    /\ Listed
    /\ has_filter_tag(tags_list_of(Parsed.properties.items))
    /\ Taken
    /\ LET d == update_title(
                    update_tags(Parsed.properties.items,
                                tags_list_of(Parsed.properties.items),
                                remove_filter_tag),
                    vault[cur + 1].stem)
       IN /\ properties' = update_date(d, clock)
          /\ clock' = IF needs_date(d) THEN clock + 1 ELSE clock
    /\ content' = Parsed.note_body
    /\ posts' = mkdir(posts, vault[cur + 1].stem)
    /\ matches' = attachment_matches(Parsed.note_body, 1)
    /\ replacements' = <<>>
    /\ pc' = "attach"

Attaching == pc = "attach" /\ matches # <<>>
NextMatch ==
    /\ matches' = Tail(matches)
    /\ UNCHANGED <<config, run, cur, properties, content, clock, visited,
                   saved, prev_posts>>

\* lines 179-181
MissingAttachment ==
    /\ Attaching
    /\ ~exists(Head(matches).original_filename)
    /\ NextMatch
    /\ UNCHANGED <<posts, pc, replacements>>

\* lines 183-185: calculate_md5 returned None
SkipUnhashed ==
    /\ Attaching
    /\ exists(Head(matches).original_filename)
    /\ attachments_dir[Head(matches).original_filename].kind = "gone"
    /\ NextMatch
    /\ UNCHANGED <<posts, pc, replacements>>

\* line 76: open() raises something that is no FileNotFoundError
FailHash ==
    /\ Attaching
    /\ exists(Head(matches).original_filename)
    /\ attachments_dir[Head(matches).original_filename].kind = "dir"
    /\ NextMatch
    /\ pc' = "aborted"
    /\ UNCHANGED <<posts, replacements>>

\* lines 187-195
CopyAttachment ==
    /\ Attaching
    /\ exists(Head(matches).original_filename)
    /\ attachments_dir[Head(matches).original_filename].kind = "file"
    /\ NextMatch
    /\ posts' = [posts EXCEPT ![vault[cur].stem].files =
                    copy2(@, Head(matches).original_filename)]
    /\ replacements' =
          Append(replacements,
                 [old |-> Head(matches).original_link_text,
                  new |-> new_link_text(
                              new_filename(Head(matches).original_filename))])
    /\ UNCHANGED pc

\* lines 197-208: the body that is written
rewritten(body, reps) == strip_wikilinks(apply_replacements(body, reps))

\* lines 197-219; the locals are dead until the next note sets them
WriteIndex ==
    /\ pc = "attach"
    /\ matches = <<>>
    /\ posts' = [posts EXCEPT ![vault[cur].stem].index =
                    index_text(properties, rewritten(content, replacements))]
    /\ saved' = Append(saved,
                       [note |-> cur,
                        properties |-> properties,
                        source |-> content,
                        replacements |-> replacements,
                        body |-> rewritten(content, replacements),
                        text |-> index_text(properties,
                                            rewritten(content, replacements))])
    /\ pc' = "scan"
    /\ properties' = <<>>
    /\ content' = <<>>
    /\ replacements' = <<>>
    /\ UNCHANGED <<config, run, cur, matches, clock, visited, prev_posts>>

\* line 221: the loop is over
EndRun ==
    /\ pc = "scan"
    /\ cur = Len(vault)
    /\ pc' = "done"
    /\ UNCHANGED <<config, posts, run, cur, locals, clock, visited, saved,
                   prev_posts>>

Next ==
    \/ StartRun
    \/ SkipExcluded
    \/ FailRead
    \/ FailProperties
    \/ FailTags
    \/ SkipTag
    \/ SelectNote
    \/ MissingAttachment
    \/ SkipUnhashed
    \/ FailHash
    \/ CopyAttachment
    \/ WriteIndex
    \/ EndRun

Spec == Init /\ [][Next]_vars

\* ------------------------------------------------------------ claims
\* What the claims speak of, stated from their words.

\* the k-th comma of s (0 before the first piece, Len(s)+1 after the last)
ClaimComma(s, k) ==
    LET commas == {i \in 1..Len(s) : s[i] = ","}
    IN IF k = 0 THEN 0
       ELSE IF k > Cardinality(commas) THEN Len(s) + 1
       ELSE CHOOSE c \in commas : Cardinality({b \in commas : b <= c}) = k

\* a piece without the blanks around it
ClaimTrim(p) ==
    LET a == {i \in 1..Len(p) : p[i] # " "}
    IN IF a = {} THEN <<>>
       ELSE [i \in 1..(Max(a) - Min(a) + 1) |-> p[Min(a) + i - 1]]

\* the normalised tag sequence of a note: the string form split on commas
\* and trimmed, the list form as it is, absent = empty
ClaimTagsValue(note) ==
    LET idx == {i \in 1..Len(note.front) : note.front[i].y[1].k = "tags"}
    IN IF ~note.fm \/ idx = {}
          \/ (\E i \in 1..Len(note.front) : note.front[i] \in {BadLine, SeqLine})
       THEN None ELSE note.front[Max(idx)].y[1].v
ClaimNormalized(note) ==
    LET v == ClaimTagsValue(note)
    IN IF v.t = "str"
       THEN [k \in 1..(Cardinality({i \in 1..Len(v.s) : v.s[i] = ","}) + 1) |->
                ClaimTrim([i \in 1..(ClaimComma(v.s, k) - ClaimComma(v.s, k - 1) - 1)
                              |-> v.s[ClaimComma(v.s, k - 1) + i]])]
       ELSE v.l
ClaimHasTag(note) ==
    \E i \in 1..Len(ClaimNormalized(note)) : ClaimNormalized(note)[i] = Blog

\* the note is an excluded subtree or lies below one
ClaimExcluded(note) ==
    \E i \in 1..Len(exclude_dirs) : \E n \in 0..Len(note_path(note)) :
        [j \in 1..n |-> note_path(note)[j]] = exclude_dirs[i]

ClaimEligible(note) == ~ClaimExcluded(note) /\ ClaimHasTag(note)

\* C1: a bundle directory is made, an attachment copied or an index.md
\* written only for a note that lies under no excluded subtree and whose
\* normalised tags hold the selection tag; any other note leaves the
\* output tree as it was.
C1_OutputOnlyForEligibleNotes ==
    [][posts' # posts => ClaimEligible(vault[cur'])]_vars

\* a run that passed by a tagged note under the excluded subtree and a
\* tagged note in a sibling directory whose name only starts the same way
C1_Witness ==
    /\ pc = "done"
    /\ exclude_dirs = <<<<P>>>>
    /\ Len(vault) = 2
    /\ vault[1].dir = <<P>> /\ ClaimHasTag(vault[1])
    /\ vault[2].dir = <<PX>> /\ ClaimHasTag(vault[2])
    /\ Len(saved) = 1 /\ saved[1].note = 2
    /\ posts[N].index = saved[1].text

\* C2: a failure while one note is processed never aborts the run; every
\* note of the enumeration is still processed.
C2_FailureNeverAborts ==
    pc \in {"done", "aborted"} => visited = 1..Len(vault)

\* sub stands somewhere in s
Occurs(sub, s) ==
    \E i \in 1..(Len(s) - Len(sub) + 1) : SubSeq(s, i, i + Len(sub) - 1) = sub

\* the embed tokens of a body that were not resolved
Unresolved(e) ==
    {m \in {attachment_matches(e.source, 1)[i] :
                i \in 1..Len(attachment_matches(e.source, 1))} :
        \A r \in 1..Len(e.replacements) :
            e.replacements[r].old # m.original_link_text}

\* C3: every embed token whose attachment was not resolved stands
\* unchanged in the body that is written.
C3_UnresolvedEmbedKept ==
    \A n \in 1..Len(saved) : \A m \in Unresolved(saved[n]) :
        Occurs(m.original_link_text, saved[n].body)

\* "[[x]]" with no '!' right before it
PlainCrossReference(s) ==
    \E i, j \in 1..Len(s) :
        /\ i + 2 <= j
        /\ StartsAt(s, i, <<"[", "[">>)
        /\ StartsAt(s, j, <<"]", "]">>)
        /\ ~(i > 1 /\ s[i - 1].c = "!")

\* C4: no plain cross-reference survives in what is written, whatever the
\* body.
C4_NoPlainCrossReference ==
    \A n \in 1..Len(saved) : ~PlainCrossReference(saved[n].body)

\* the file an embed token names, its bytes and its extension
ClaimName(old) == Plain(SubSeq(old, 4, Len(old) - 2))
ClaimData(old) == attachments_dir[ClaimName(old)].data
ClaimExtension(old) ==
    LET nm == ClaimName(old)
        dots == {i \in 2..(Len(nm) - 1) : nm[i] = "."}
    IN IF dots = {} THEN <<>> ELSE [i \in 1..(Len(nm) - Max(dots) + 1) |->
                                        nm[Max(dots) + i - 1]]

\* C5 as stated: two distinct embed tokens whose files hold the same bytes
\* are rewritten to the same target, whatever their names and extensions.
C5_SameBytesSameTarget ==
    \A n \in 1..Len(saved) : \A i, j \in 1..Len(saved[n].replacements) :
        LET a == saved[n].replacements[i]
            b == saved[n].replacements[j]
        IN a.old # b.old /\ ClaimData(a.old) = ClaimData(b.old) => a.new = b.new

\* C5 amended: two distinct embed tokens whose files hold the same bytes
\* and carry the same extension are rewritten to the same target.
C5_SameBytesSameExtensionSameTarget ==
    \A n \in 1..Len(saved) : \A i, j \in 1..Len(saved[n].replacements) :
        LET a == saved[n].replacements[i]
            b == saved[n].replacements[j]
        IN a.old # b.old /\ ClaimData(a.old) = ClaimData(b.old)
              /\ ClaimExtension(a.old) = ClaimExtension(b.old)
           => a.new = b.new

\* a note was written whose two embeds name different files with the same
\* bytes and the same extension
C5_Witness ==
    \E n \in 1..Len(saved) :
        /\ Len(saved[n].replacements) = 2
        /\ saved[n].replacements[1].old = Text(Embed(AP))
        /\ saved[n].replacements[2].old = Text(Embed(BP))
        /\ Occurs(saved[n].replacements[1].new, saved[n].body)

\* the same keys with the same values
SameMapping(d, e) ==
    {d[i] : i \in 1..Len(d)} = {e[i] : i \in 1..Len(e)}

\* C6: parsing an index.md that was written gives back the mapping that
\* was serialised and the body that was written.
C6_RoundTrip ==
    \A n \in 1..Len(saved) :
        LET r == parse_note_content(saved[n].text)
        IN /\ r.properties.mapping
           /\ SameMapping(r.properties.items, saved[n].properties)
           /\ r.note_body = saved[n].body

\* the front matter carries a date that is not empty
ClaimExplicitDate(note) ==
    /\ note.fm
    /\ \E i \in 1..Len(note.front) :
          note.front[i].y[1].k = "date" /\ Truthy(note.front[i].y[1].v)

\* C7: a second run over the same vault leaves the index.md of every note
\* that carries an explicit date as the first run left it, and makes no
\* further bundle.
C7_SecondRunIdentical ==
    pc = "done" /\ run >= 2 =>
        /\ DOMAIN posts = DOMAIN prev_posts
        /\ \A n \in 1..Len(saved) :
              ClaimExplicitDate(vault[saved[n].note]) =>
                  posts[vault[saved[n].note].stem].index
                      = prev_posts[vault[saved[n].note].stem].index

\* the normalised tags without the selection tag, in their order
ClaimWithoutTag(l) == SelectSeq(l, LAMBDA t : t # Blog)

\* C8: the tags that are written: with the remove flag the normalised tags
\* without any occurrence of the selection tag, and no 'tags' key at all
\* when none is left; without the flag the full normalised tags.
C8_EmittedTags ==
    \A n \in 1..Len(saved) :
        LET want == ClaimNormalized(vault[saved[n].note])
            d == saved[n].properties
        IN IF remove_filter_tag
           THEN IF ClaimWithoutTag(want) = <<>>
                THEN ~Has(d, "tags")
                ELSE Has(d, "tags")
                     /\ Get(d, "tags", None) = List(ClaimWithoutTag(want))
           ELSE Has(d, "tags") /\ Get(d, "tags", None) = List(want)

\* with the remove flag: a note whose only tag was the selection tag is
\* written without a 'tags' key, one in string form with a trimmed list
C8_Witness ==
    /\ remove_filter_tag
    /\ Len(saved) = 1
    /\ ClaimTagsValue(vault[saved[1].note]).t = "str"
    /\ ClaimNormalized(vault[saved[1].note]) = <<Blog, Blog>>
    /\ ~Has(saved[1].properties, "tags")

\* C9: after a complete run the bundle of every selected note holds what
\* was written for that note.
C9_BundleHoldsOwnNote ==
    pc = "done" =>
        \A n \in 1..Len(saved) :
            posts[vault[saved[n].note].stem].index = saved[n].text

\* the names that "![](name)" references of a text point to
ClaimReferences(s) ==
    {Plain(SubSeq(s, i + 4, j - 1)) :
        <<i, j>> \in {ij \in (1..Len(s)) \X (1..Len(s)) :
            /\ ij[1] + 4 <= ij[2]
            /\ StartsAt(s, ij[1], <<"!", "[", "]", "(">>)
            /\ s[ij[2]].c = ")"
            /\ \A m \in (ij[1] + 4)..(ij[2] - 1) : s[m].c # ")"}}

\* C10: in every state, each file an index.md refers to lies in the same
\* bundle directory.
C10_ReferencedFileExists ==
    \A b \in DOMAIN posts :
        ClaimReferences(posts[b].index) \subseteq DOMAIN posts[b].files

\* in a rerun, between the copy of an attachment and the writing of the
\* index, the index of the first run refers to a file of the bundle
C10_Witness ==
    /\ run = 2
    /\ pc = "attach"
    /\ replacements # <<>>
    /\ matches # <<>>
    /\ ClaimReferences(posts[vault[cur].stem].index) # {}

====
